---- MODULE Spec2Model ----
(***************************************************************************)
(* The vexctl triage browser: the table engine (internal/triage/table),    *)
(* the layout split and the Scroll / FilterEntry key routing of the        *)
(* top-level bubbletea model (internal/triage).                            *)
(*                                                                         *)
(* Strings are sequences of one-character strings; Go structs are records  *)
(* whose fields keep the Go names; value-receiver methods are operators    *)
(* that take the receiver and return the modified copy.                    *)
(***************************************************************************)
EXTENDS Integers, Sequences, FiniteSets, TLC

VARIABLES
    height,       \* model.height
    width,        \* model.width
    data,         \* model.data.Matches, sorted by New
    mode,         \* model.mode
    table,        \* model.table  (table.Model)
    filter,       \* model.filter (textinput.Model: value and focus)
    showDetails,  \* model.showDetails
    details,      \* model.details (details.Model: height, width)
    cmd,          \* the tea.Cmd returned by the last Update
    status        \* "running", "quit" after tea.Quit, "panic" after a runtime panic

vars == <<height, width, data, mode, table, filter, showDetails, details, cmd, status>>

(***************************************************************************)
(* Bounds of the exploration.                                              *)
(***************************************************************************)
MaxHeight == 4     \* resize events carry a height in 0..MaxHeight, or 10
MaxWidth == 1      \* resize events carry a width in 0..MaxWidth
MaxLen == 1        \* longest text typed into the filter buffer
MaxExpr == 2       \* longest expression handed to Find directly
MaxIdx == 3        \* row indices are explored in -MaxIdx..MaxIdx

Heights == (0..MaxHeight) \cup {10}
Widths == 0..MaxWidth

(***************************************************************************)
(* Strings.                                                                *)
(***************************************************************************)
Chars == {"N", "n"}

\* byte value of a character, the order strings.Compare uses
Code(c) == CASE c = "N" -> 78 [] c = "n" -> 110 [] OTHER -> 0

RECURSIVE Compare(_, _)
\* strings.Compare(a, b): -1, 0 or 1, bytewise lexicographic
Compare(a, b) ==
    IF a = <<>> /\ b = <<>> THEN 0
    ELSE IF a = <<>> THEN -1
    ELSE IF b = <<>> THEN 1
    ELSE IF Code(Head(a)) < Code(Head(b)) THEN -1
    ELSE IF Code(Head(a)) > Code(Head(b)) THEN 1
    ELSE Compare(Tail(a), Tail(b))

\* lower-case form of a character
Fold(c) == IF c = "N" THEN "n" ELSE c

\* Contains as strings.Contains(strings.ToLower(s), strings.ToLower(substr))
Contains_FoldCase(s, substr) ==
    \E k \in 0..(Len(s) - Len(substr)) :
        /\ \A j \in 1..Len(substr) : Fold(s[k + j]) = Fold(substr[j])

\* strings.Contains(s, substr): substr occurs in s at some offset;
\* the empty substr occurs at offset 0 of every s
Contains(s, substr) ==
    \E k \in 0..(Len(s) - Len(substr)) :
        SubSeq(s, k + 1, k + Len(substr)) = substr

(***************************************************************************)
(* formats.Match and the match store.                                      *)
(***************************************************************************)
Match(name, version, id) ==
    [Package |-> [Name |-> name, Version |-> version],
     Vulnerability |-> [ID |-> id]]

\* the less function New hands to sort.SliceStable
Less(a, b) ==
    LET nameCmp == Compare(a.Package.Name, b.Package.Name)
    IN  IF nameCmp # 0 THEN nameCmp < 0
        ELSE Compare(a.Vulnerability.ID, b.Vulnerability.ID) < 0

RECURSIVE Insert_BeforeEqual(_, _)
\* x goes before the first element that is not less than it
Insert_BeforeEqual(x, s) ==
    IF s = <<>> THEN <<x>>
    ELSE IF ~Less(Head(s), x) THEN <<x>> \o s
    ELSE <<Head(s)>> \o Insert_BeforeEqual(x, Tail(s))

RECURSIVE Insert(_, _)
\* x goes after every element that is not greater than it
Insert(x, s) ==
    IF s = <<>> THEN <<x>>
    ELSE IF Less(x, Head(s)) THEN <<x>> \o s
    ELSE <<Head(s)>> \o Insert(x, Tail(s))

RECURSIVE SliceStable(_)
\* sort.SliceStable(ms, less): the stable sorted permutation of ms
SliceStable(ms) ==
    IF ms = <<>> THEN <<>>
    ELSE Insert(ms[Len(ms)], SliceStable(SubSeq(ms, 1, Len(ms) - 1)))

\* the normalized scan reports the browser is started on: none, one match,
\* three matches with distinct names (given out of order), three matches
\* with one name (given out of order) of which two have equal ids
Inputs ==
    { <<>>,
      << Match(<<"n">>, <<"1">>, <<>>) >>,
      << Match(<<"n">>, <<"1">>, <<"N", "N">>),
         Match(<<"N">>, <<"1">>, <<"N", "N">>),
         Match(<<"N", "n">>, <<"1">>, <<>>) >>,
      << Match(<<"N">>, <<"1">>, <<"n">>),
         Match(<<"N">>, <<"2">>, <<>>),
         Match(<<"N">>, <<"1">>, <<>>) >> }

(***************************************************************************)
(* Constants of the program.                                               *)
(***************************************************************************)
ModeDataScroll == "ModeDataScroll"
ModeFilterEntry == "ModeFilterEntry"
notFound == -1

(***************************************************************************)
(* table.Model                                                             *)
(***************************************************************************)
\* Model{}: the zero value Find/FindNext/FindPrevious return with an error
ZeroTable ==
    [height |-> 0, width |-> 0, firstRowShown |-> 0, rowSelected |-> 0,
     findExpression |-> <<>>, data |-> <<>>]

TableNew(d) ==
    [height |-> 0, width |-> 0, firstRowShown |-> 0, rowSelected |-> 0,
     findExpression |-> <<>>, data |-> d]

\* SetHeight scrolling the window forward when the new height no longer
\* reaches the selected row
SetHeight_UpdatesWindow(m, h) ==
    LET resized == [m EXCEPT !.height = h]
        windowLast == resized.firstRowShown + (h - 1) - 1
    IN  IF resized.rowSelected > windowLast /\ resized.rowSelected >= resized.firstRowShown
        THEN [resized EXCEPT !.firstRowShown = resized.rowSelected - ((h - 1) - 1)]
        ELSE resized

SetHeight(m, h) == [m EXCEPT !.height = h]

SetWidth(m, w) == [m EXCEPT !.width = w]

countRowsShown(m) == m.height - 1

totalRowCount(m) == Len(m.data)

lastRowIndex(m) == totalRowCount(m) - 1

dataWindowEnd(m) == m.firstRowShown + countRowsShown(m) - 1

filterMatchFound(match, expr) ==
    Contains(match.Package.Name, expr) \/ Contains(match.Vulnerability.ID, expr)

\* updateWindow scrolling forward by a whole window: the new start is
\* newSelectedIndex - countRowsShown()
updateWindow_ScrollsTooFar(m) ==
    LET newSelectedIndex == m.rowSelected
        windowFirst == m.firstRowShown
        windowLast == dataWindowEnd(m)
    IN  IF newSelectedIndex >= windowFirst /\ newSelectedIndex <= windowLast
        THEN m
        ELSE IF newSelectedIndex < windowFirst
        THEN [m EXCEPT !.firstRowShown = newSelectedIndex]
        ELSE [m EXCEPT !.firstRowShown = newSelectedIndex - countRowsShown(m)]

\* updateWindow jumping forward so that the window starts at the selection
updateWindow_StartsAtSelection(m) ==
    LET newSelectedIndex == m.rowSelected
        windowFirst == m.firstRowShown
        windowLast == dataWindowEnd(m)
    IN  IF newSelectedIndex >= windowFirst /\ newSelectedIndex <= windowLast
        THEN m
        ELSE [m EXCEPT !.firstRowShown = newSelectedIndex]

updateWindow(m) ==
    LET newSelectedIndex == m.rowSelected
        windowFirst == m.firstRowShown
        windowLast == dataWindowEnd(m)
    IN  IF newSelectedIndex >= windowFirst /\ newSelectedIndex <= windowLast
        THEN m
        ELSE IF newSelectedIndex < windowFirst
        THEN [m EXCEPT !.firstRowShown = newSelectedIndex]
        ELSE IF newSelectedIndex > windowLast
        THEN [m EXCEPT !.firstRowShown = newSelectedIndex - (countRowsShown(m) - 1)]
        ELSE m

selectAndShowRow(m, i) == updateWindow([m EXCEPT !.rowSelected = i])

moveUp(m) ==
    IF m.rowSelected = 0 THEN m
    ELSE selectAndShowRow(m, m.rowSelected - 1)

moveDown(m) ==
    IF m.rowSelected = lastRowIndex(m) THEN m
    ELSE selectAndShowRow(m, m.rowSelected + 1)

jumpToStart(m) == selectAndShowRow(m, 0)

jumpToEnd(m) == selectAndShowRow(m, lastRowIndex(m))

\* pageUp without the clamp at row 0
pageUp_NoClamp(m) ==
    IF m.rowSelected > m.firstRowShown
    THEN [m EXCEPT !.rowSelected = m.firstRowShown]
    ELSE selectAndShowRow(m, m.rowSelected - countRowsShown(m))

pageUp(m) ==
    IF m.rowSelected > m.firstRowShown
    THEN [m EXCEPT !.rowSelected = m.firstRowShown]
    ELSE LET moved == m.rowSelected - countRowsShown(m)
             newSelectedRow == IF moved < 0 THEN 0 ELSE moved
         IN  selectAndShowRow(m, newSelectedRow)

pageDown(m) ==
    LET windowEnd == dataWindowEnd(m)
    IN  IF m.rowSelected < windowEnd
        THEN IF windowEnd > lastRowIndex(m)
             THEN [m EXCEPT !.rowSelected = lastRowIndex(m)]
             ELSE [m EXCEPT !.rowSelected = windowEnd]
        ELSE LET moved == m.rowSelected + countRowsShown(m)
                 lastRow == lastRowIndex(m)
                 newSelectedRow == IF moved > lastRow THEN lastRow ELSE moved
             IN  selectAndShowRow(m, newSelectedRow)


RECURSIVE findFrom(_, _, _)
\* the range loop of find, at index i
findFrom(m, expr, i) ==
    IF i > lastRowIndex(m) THEN notFound
    ELSE IF filterMatchFound(m.data[i + 1], expr) THEN i
    ELSE findFrom(m, expr, i + 1)

find(m, expr) == findFrom(m, expr, 0)

\* what one execution of a search loop does: it returns an index (or
\* notFound), panics on an index outside the slice, or never returns;
\* compares counts the calls of filterMatchFound
Returned(i, n) == [outcome |-> "return", index |-> i, compares |-> n]
Panicked(n) == [outcome |-> "panic", index |-> notFound, compares |-> n]
Looping(n) == [outcome |-> "loop", index |-> notFound, compares |-> n]

RECURSIVE findNextFrom_EarlyWrap(_, _, _, _)
\* findNext wrapping one row early: "if i >= m.lastRowIndex() { i = 0 }"
findNextFrom_EarlyWrap(m, expr, i0, n) ==
    LET inc == i0 + 1
        i == IF inc >= lastRowIndex(m) THEN 0 ELSE inc
    IN  IF i = m.rowSelected THEN Returned(notFound, n)
        ELSE IF i < 0 \/ i > lastRowIndex(m) THEN Panicked(n)
        ELSE IF filterMatchFound(m.data[i + 1], expr) THEN Returned(i, n + 1)
        ELSE IF n + 1 > totalRowCount(m) THEN Looping(n + 1)
        ELSE findNextFrom_EarlyWrap(m, expr, i, n + 1)

RECURSIVE findNextFrom(_, _, _, _)
\* the body of findNext's for loop, entered with loop variable i0 after n
\* comparisons.  Every compared index is in 0..lastRowIndex, so a run of
\* more than totalRowCount failed comparisons repeats a value of i and the
\* loop never ends.
findNextFrom(m, expr, i0, n) ==
    LET inc == i0 + 1
        i == IF inc > lastRowIndex(m) THEN 0 ELSE inc
    IN  IF i = m.rowSelected THEN Returned(notFound, n)
        ELSE IF i < 0 \/ i > lastRowIndex(m) THEN Panicked(n)
        ELSE IF filterMatchFound(m.data[i + 1], expr) THEN Returned(i, n + 1)
        ELSE IF n + 1 > totalRowCount(m) THEN Looping(n + 1)
        ELSE findNextFrom(m, expr, i, n + 1)

findNext(m, expr) == findNextFrom(m, expr, m.rowSelected, 0)

RECURSIVE findPreviousFrom_NoSelfCheck(_, _, _, _)
\* findPrevious without "if i == m.rowSelected { return notFound }"
findPreviousFrom_NoSelfCheck(m, expr, i0, n) ==
    LET dec == i0 - 1
        i == IF dec < 0 THEN lastRowIndex(m) ELSE dec
    IN  IF i < 0 \/ i > lastRowIndex(m) THEN Panicked(n)
        ELSE IF filterMatchFound(m.data[i + 1], expr) THEN Returned(i, n + 1)
        ELSE IF n + 1 > totalRowCount(m) THEN Looping(n + 1)
        ELSE findPreviousFrom_NoSelfCheck(m, expr, i, n + 1)

RECURSIVE findPreviousFrom(_, _, _, _)
\* the body of findPrevious's for loop
findPreviousFrom(m, expr, i0, n) ==
    LET dec == i0 - 1
        i == IF dec < 0 THEN lastRowIndex(m) ELSE dec
    IN  IF i = m.rowSelected THEN Returned(notFound, n)
        ELSE IF i < 0 \/ i > lastRowIndex(m) THEN Panicked(n)
        ELSE IF filterMatchFound(m.data[i + 1], expr) THEN Returned(i, n + 1)
        ELSE IF n + 1 > totalRowCount(m) THEN Looping(n + 1)
        ELSE findPreviousFrom(m, expr, i, n + 1)

findPrevious(m, expr) == findPreviousFrom(m, expr, m.rowSelected, 0)

\* the (Model, error) pair of Find, FindNext and FindPrevious; outcome is
\* "return" unless the search loop panicked or never returned
Result(o, m, e) == [outcome |-> o, model |-> m, err |-> e]

Find(m, expr) ==
    LET m1 == [m EXCEPT !.findExpression = expr]
        foundIndex == find(m1, expr)
    IN  IF foundIndex = notFound
        THEN Result("return", ZeroTable, "NoMatchFound")
        ELSE Result("return", selectAndShowRow(m1, foundIndex), "nil")

\* FindNext calling m.find instead of m.findNext
FindNext_CallsFind(m) ==
    LET foundIndex == find(m, m.findExpression)
    IN  IF foundIndex = notFound
        THEN Result("return", ZeroTable, "NoMatchFound")
        ELSE Result("return", selectAndShowRow(m, foundIndex), "nil")

FindNext(m) ==
    LET run == findNext(m, m.findExpression)
    IN  IF run.outcome # "return" THEN Result(run.outcome, m, "nil")
        ELSE IF run.index = notFound
        THEN Result("return", ZeroTable, "NoMatchFound")
        ELSE Result("return", selectAndShowRow(m, run.index), "nil")

\* FindPrevious calling m.findNext instead of m.findPrevious
FindPrevious_SearchesForward(m) ==
    LET run == findNext(m, m.findExpression)
    IN  IF run.outcome # "return" THEN Result(run.outcome, m, "nil")
        ELSE IF run.index = notFound
        THEN Result("return", ZeroTable, "NoMatchFound")
        ELSE Result("return", selectAndShowRow(m, run.index), "nil")

FindPrevious(m) ==
    LET run == findPrevious(m, m.findExpression)
    IN  IF run.outcome # "return" THEN Result(run.outcome, m, "nil")
        ELSE IF run.index = notFound
        THEN Result("return", ZeroTable, "NoMatchFound")
        ELSE Result("return", selectAndShowRow(m, run.index), "nil")

\* table.Model.Update for a key message: the new model and the command
TableUpdate(m, key) ==
    CASE key = "ctrl+c" -> [model |-> m, cmd |-> "Quit"]
      [] key = "q" -> [model |-> m, cmd |-> "Quit"]
      [] key \in {"up", "k"} -> [model |-> moveUp(m), cmd |-> "nil"]
      [] key \in {"down", "j"} -> [model |-> moveDown(m), cmd |-> "nil"]
      [] key = "g" -> [model |-> jumpToStart(m), cmd |-> "nil"]
      [] key = "G" -> [model |-> jumpToEnd(m), cmd |-> "nil"]
      [] key = "w" -> [model |-> pageUp(m), cmd |-> "nil"]
      [] key = "z" -> [model |-> pageDown(m), cmd |-> "nil"]
      [] OTHER -> [model |-> m, cmd |-> "nil"]

(***************************************************************************)
(* details.Model and textinput.Model                                       *)
(***************************************************************************)
DetailsSetHeight(m, h) == [m EXCEPT !.height = h]

DetailsSetWidth(m, w) == [m EXCEPT !.width = w]

\* textinput.Model{}: the filter of a new model
ZeroFilter == [value |-> <<>>, focus |-> FALSE]

\* newFilterTextInput(): textinput.New() with a prompt and a placeholder
newFilterTextInput == [value |-> <<>>, focus |-> FALSE]

Focus(f) == [f EXCEPT !.focus = TRUE]

Blur(f) == [f EXCEPT !.focus = FALSE]

\* the characters a key message types into the filter: the keys that
\* ModeDataScroll reads as repeat search, quit and toggle details
Runes == {"n", "q", "d"}

\* textinput.Model.Update for a key message: an unfocused input ignores
\* it, a rune is appended, backspace drops the last rune, other keys
\* leave the value alone (the cursor stays at the end of the value)
FilterUpdate(f, key) ==
    IF ~f.focus THEN f
    ELSE IF key \in Runes THEN [f EXCEPT !.value = Append(@, key)]
    ELSE IF key = "backspace" /\ f.value # <<>>
    THEN [f EXCEPT !.value = SubSeq(@, 1, Len(@) - 1)]
    ELSE f

(***************************************************************************)
(* model (internal/triage): layout                                         *)
(***************************************************************************)
\* expectedComponentHeights taking the filter row before the split:
\* the details pane gets half of what is left
expectedComponentHeights_FilterRowFirst(h, sd, md) ==
    LET table0 == IF md = ModeFilterEntry THEN h - 1 ELSE h
        details1 == IF sd THEN table0 \div 2 ELSE 0
    IN  [table |-> table0 - details1, details |-> details1]

\* expectedComponentHeights for the fields (height, showDetails, mode)
expectedComponentHeights(h, sd, md) ==
    LET table0 == h
        details0 == 0
        details1 == IF sd THEN h \div 2 ELSE details0
        table1 == IF sd THEN h - details1 ELSE table0
        table2 == IF md = ModeFilterEntry THEN table1 - 1 ELSE table1
    IN  [table |-> table2, details |-> details1]

\* updateComponentSizes: the table and details after the layout is applied
SizedTable(t, h, w, sd, md) ==
    SetWidth(SetHeight(t, expectedComponentHeights(h, sd, md).table), w)

SizedDetails(d, h, w, sd, md) ==
    DetailsSetWidth(DetailsSetHeight(d, expectedComponentHeights(h, sd, md).details), w)


(***************************************************************************)
(* model (internal/triage): construction and Update                        *)
(***************************************************************************)
IdxRange == (0 - MaxIdx)..MaxIdx

\* the exploration stops where a row index leaves IdxRange
Bounded(t) == t.rowSelected \in IdxRange /\ t.firstRowShown \in IdxRange

\* New(data): sorts the matches and builds the model
Init ==
    \E input \in Inputs :
        /\ data = SliceStable(input)
        /\ table = TableNew(SliceStable(input))
        /\ height = 0
        /\ width = 0
        /\ mode = ModeDataScroll
        /\ filter = ZeroFilter
        /\ showDetails = FALSE
        /\ details = [height |-> 0, width |-> 0]
        /\ cmd = "nil"
        /\ status = "running"

\* ctrl+c in either mode
KeyCtrlC ==
    /\ status = "running"
    /\ cmd' = "Quit"
    /\ status' = "quit"
    /\ UNCHANGED <<height, width, data, mode, table, filter, showDetails, details>>

\* "q" in ModeDataScroll
KeyQuit ==
    /\ status = "running"
    /\ mode = ModeDataScroll
    /\ cmd' = "Quit"
    /\ status' = "quit"
    /\ UNCHANGED <<height, width, data, mode, table, filter, showDetails, details>>

\* "/" focusing the input it has without replacing it
KeySlash_KeepsBuffer ==
    /\ status = "running"
    /\ mode = ModeDataScroll
    /\ mode' = ModeFilterEntry
    /\ filter' = Focus(filter)
    /\ table' = SizedTable(table, height, width, showDetails, ModeFilterEntry)
    /\ details' = SizedDetails(details, height, width, showDetails, ModeFilterEntry)
    /\ cmd' = "Blink"
    /\ UNCHANGED <<height, width, data, showDetails, status>>

\* "/" in ModeDataScroll
KeySlash ==
    /\ status = "running"
    /\ mode = ModeDataScroll
    /\ mode' = ModeFilterEntry
    /\ filter' = Focus(newFilterTextInput)
    /\ table' = SizedTable(table, height, width, showDetails, ModeFilterEntry)
    /\ details' = SizedDetails(details, height, width, showDetails, ModeFilterEntry)
    /\ cmd' = "Blink"
    /\ UNCHANGED <<height, width, data, showDetails, status>>

\* what the "n" and "N" cases do with the result r of FindNext/FindPrevious;
\* with an empty filter value, or after NoMatchFound in the "n" case, the
\* key goes on to table.Update, which has no case for it
RepeatSearch(key, r) ==
    /\ status = "running"
    /\ mode = ModeDataScroll
    /\ IF filter.value = <<>>
       THEN /\ table' = TableUpdate(table, key).model
            /\ status' = status
       ELSE IF r.outcome # "return"
       THEN /\ table' = table
            /\ status' = r.outcome
       ELSE IF r.err = "NoMatchFound"
       THEN /\ table' = IF key = "n" THEN TableUpdate(table, key).model ELSE table
            /\ status' = status
       ELSE /\ Bounded(r.model)
            /\ table' = r.model
            /\ status' = status
    /\ cmd' = "nil"
    /\ UNCHANGED <<height, width, data, mode, filter, showDetails, details>>

\* "n" in ModeDataScroll
KeyFindNext == RepeatSearch("n", FindNext(table))

\* "N" in ModeDataScroll
KeyFindPrevious == RepeatSearch("N", FindPrevious(table))

\* "d" toggling the details pane in either mode
KeyToggleDetails_AnyMode ==
    /\ status = "running"
    /\ showDetails' = ~showDetails
    /\ table' = SizedTable(table, height, width, ~showDetails, mode)
    /\ details' = SizedDetails(details, height, width, ~showDetails, mode)
    /\ cmd' = "nil"
    /\ UNCHANGED <<height, width, data, mode, filter, status>>

\* "d" in ModeDataScroll
KeyToggleDetails ==
    /\ status = "running"
    /\ mode = ModeDataScroll
    /\ showDetails' = ~showDetails
    /\ table' = SizedTable(table, height, width, ~showDetails, mode)
    /\ details' = SizedDetails(details, height, width, ~showDetails, mode)
    /\ cmd' = "nil"
    /\ UNCHANGED <<height, width, data, mode, filter, status>>

\* the keys of ModeDataScroll that fall through to table.Update
TableKeys == {"up", "k", "down", "j", "g", "G", "w", "z", "enter", "esc", "x"}

TableKey(key) ==
    /\ status = "running"
    /\ mode = ModeDataScroll
    /\ Bounded(TableUpdate(table, key).model)
    /\ table' = TableUpdate(table, key).model
    /\ cmd' = TableUpdate(table, key).cmd
    /\ UNCHANGED <<height, width, data, mode, filter, showDetails, details, status>>

KeyToTable == \E key \in TableKeys : TableKey(key)

\* "enter" storing the Model that Find returned before looking at the error
KeyEnter_StoresFailedResult ==
    /\ status = "running"
    /\ mode = ModeFilterEntry
    /\ LET r == Find(table, filter.value)
       IN  IF r.err = "NoMatchFound"
           THEN /\ table' = r.model
                /\ UNCHANGED <<filter, mode, details>>
           ELSE /\ Bounded(r.model)
                /\ filter' = Blur(filter)
                /\ mode' = ModeDataScroll
                /\ table' = SizedTable(r.model, height, width, showDetails, ModeDataScroll)
                /\ details' = SizedDetails(details, height, width, showDetails, ModeDataScroll)
    /\ cmd' = "nil"
    /\ UNCHANGED <<height, width, data, showDetails, status>>

\* "enter" going back to ModeDataScroll whether or not Find found a row
KeyEnter_AlwaysReturns ==
    /\ status = "running"
    /\ mode = ModeFilterEntry
    /\ LET r == Find(table, filter.value)
           t == IF r.err = "NoMatchFound" THEN table ELSE r.model
       IN  /\ Bounded(t)
           /\ filter' = Blur(filter)
           /\ mode' = ModeDataScroll
           /\ table' = SizedTable(t, height, width, showDetails, ModeDataScroll)
           /\ details' = SizedDetails(details, height, width, showDetails, ModeDataScroll)
    /\ cmd' = "nil"
    /\ UNCHANGED <<height, width, data, showDetails, status>>

\* "enter" in ModeFilterEntry
KeyEnter ==
    /\ status = "running"
    /\ mode = ModeFilterEntry
    /\ LET r == Find(table, filter.value)
       IN  IF r.err = "NoMatchFound"
           THEN UNCHANGED <<table, filter, mode, details>>
           ELSE /\ Bounded(r.model)
                /\ filter' = Blur(filter)
                /\ mode' = ModeDataScroll
                /\ table' = SizedTable(r.model, height, width, showDetails, ModeDataScroll)
                /\ details' = SizedDetails(details, height, width, showDetails, ModeDataScroll)
    /\ cmd' = "nil"
    /\ UNCHANGED <<height, width, data, showDetails, status>>

\* "esc" leaving ModeFilterEntry without m.updateComponentSizes()
KeyEsc_KeepsSizes ==
    /\ status = "running"
    /\ mode = ModeFilterEntry
    /\ filter' = Blur(filter)
    /\ mode' = ModeDataScroll
    /\ cmd' = "nil"
    /\ UNCHANGED <<height, width, data, table, showDetails, details, status>>

\* "esc" keeping the typed text as the table's find expression
KeyEsc_KeepsTypedText ==
    /\ status = "running"
    /\ mode = ModeFilterEntry
    /\ filter' = Blur(filter)
    /\ mode' = ModeDataScroll
    /\ table' = SizedTable([table EXCEPT !.findExpression = filter.value],
                           height, width, showDetails, ModeDataScroll)
    /\ details' = SizedDetails(details, height, width, showDetails, ModeDataScroll)
    /\ cmd' = "nil"
    /\ UNCHANGED <<height, width, data, showDetails, status>>

\* "esc" in ModeFilterEntry
KeyEsc ==
    /\ status = "running"
    /\ mode = ModeFilterEntry
    /\ filter' = Blur(filter)
    /\ mode' = ModeDataScroll
    /\ table' = SizedTable(table, height, width, showDetails, ModeDataScroll)
    /\ details' = SizedDetails(details, height, width, showDetails, ModeDataScroll)
    /\ cmd' = "nil"
    /\ UNCHANGED <<height, width, data, showDetails, status>>

\* the other keys of ModeFilterEntry go to the text input
EditKeys == Runes \cup {"backspace", "up", "down"}

FilterKey(key) ==
    /\ status = "running"
    /\ mode = ModeFilterEntry
    /\ Len(FilterUpdate(filter, key).value) <= MaxLen
    /\ filter' = FilterUpdate(filter, key)
    /\ cmd' = "nil"
    /\ UNCHANGED <<height, width, data, mode, table, showDetails, details, status>>

KeyToFilter == \E key \in EditKeys : FilterKey(key)

\* tea.WindowSizeMsg, in either mode
WindowSize(h, w) ==
    /\ status = "running"
    /\ height' = h
    /\ width' = w
    /\ table' = SizedTable(table, h, w, showDetails, mode)
    /\ details' = SizedDetails(details, h, w, showDetails, mode)
    /\ cmd' = "nil"
    /\ UNCHANGED <<data, mode, filter, showDetails, status>>

WindowSizeMsg == \E h \in Heights, w \in Widths : WindowSize(h, w)

Next ==
    \/ KeyCtrlC
    \/ KeyQuit
    \/ KeySlash
    \/ KeyFindNext
    \/ KeyFindPrevious
    \/ KeyToggleDetails
    \/ KeyToTable
    \/ KeyEnter
    \/ KeyEsc
    \/ KeyToFilter
    \/ WindowSizeMsg

Spec == Init /\ [][Next]_vars

TypeOK ==
    /\ height \in Heights \cup {0}
    /\ mode \in {ModeDataScroll, ModeFilterEntry}
    /\ status \in {"running", "quit", "panic", "loop"}


(***************************************************************************)
(* The table engine on its own: table.New(data).SetHeight(h) with at least *)
(* one body row, driven through its exported methods.  The caller keeps    *)
(* the Model a method returns unless it returns an error.                  *)
(***************************************************************************)
Exprs == UNION {[1..n -> Chars] : n \in 0..MaxExpr}

InitTable ==
    \E input \in Inputs, h \in Heights, w \in Widths :
        /\ h - 1 > 0
        /\ data = SliceStable(input)
        /\ table = SetWidth(SetHeight(TableNew(SliceStable(input)), h), w)
        /\ height = h
        /\ width = w
        /\ mode = ModeDataScroll
        /\ filter = ZeroFilter
        /\ showDetails = FALSE
        /\ details = [height |-> 0, width |-> w]
        /\ cmd = "nil"
        /\ status = "running"

\* what the caller does with the result r of a search method
Searched(r) ==
    /\ status = "running"
    /\ IF r.outcome # "return"
       THEN /\ table' = table
            /\ status' = r.outcome
       ELSE IF r.err = "NoMatchFound"
       THEN UNCHANGED <<table, status>>
       ELSE /\ Bounded(r.model)
            /\ table' = r.model
            /\ status' = status
    /\ UNCHANGED <<height, width, data, mode, filter, showDetails, details, cmd>>

TableFind(expr) == Searched(Find(table, expr))

CallFind == \E expr \in Exprs : TableFind(expr)

CallFindNext == Searched(FindNext(table))

CallFindPrevious == Searched(FindPrevious(table))

\* table.Update with one of the navigation keys
CallUpdate == \E key \in TableKeys : TableKey(key)

NextTable ==
    \/ CallUpdate
    \/ CallFind
    \/ CallFindNext
    \/ CallFindPrevious

SpecTable == InitTable /\ [][NextTable]_vars

(***************************************************************************)
(* The browser state of the specification, in the terms of the code.       *)
(***************************************************************************)
N == Len(data)
selectedIndex == table.rowSelected
windowStart == table.firstRowShown
windowSize == countRowsShown(table)
searchExpression == table.findExpression

InWindow(t) ==
    /\ t.firstRowShown <= t.rowSelected
    /\ t.rowSelected <= t.firstRowShown + countRowsShown(t) - 1

(***************************************************************************)
(* C1: with at least one match, the selected index is in 0..N-1 after      *)
(* every event, for every height including the initial height 0.           *)
(***************************************************************************)
C1_SelectionInRange ==
    N >= 1 => (0 <= selectedIndex /\ selectedIndex <= N - 1)

(***************************************************************************)
(* C2: with a fixed table height that shows at least one row and at least  *)
(* one match, navigation and search keep the selected row inside the       *)
(* window windowStart .. windowStart + windowSize - 1.                     *)
(***************************************************************************)
C2_WindowContainsSelection ==
    (N > 0 /\ windowSize > 0) => InWindow(table)

\* the window has scrolled forward and the selection is on its last row
C2_Witness ==
    /\ N > 0
    /\ windowSize > 0
    /\ windowStart > 0
    /\ selectedIndex = windowStart + windowSize - 1

(***************************************************************************)
(* C3: after every resize, toggle of showDetails or mode change that       *)
(* leaves at least one body row (and with at least one match), the         *)
(* selected row is still inside the window: it was a row of the store      *)
(* inside the window before the event, and it is inside the window of the  *)
(* new height after it.                                                    *)
(***************************************************************************)
LayoutEvent ==
    \/ WindowSizeMsg
    \/ KeyToggleDetails
    \/ KeySlash
    \/ KeyEsc

C3_LayoutRederivesWindow ==
    [][(/\ LayoutEvent
        /\ N > 0
        /\ selectedIndex \in 0..(N - 1)
        /\ windowSize > 0
        /\ InWindow(table)
        /\ countRowsShown(table') > 0) => InWindow(table')]_vars


(***************************************************************************)
(* What "a row matches an expression" means, stated without the code's     *)
(* search: expr is a contiguous run of the characters of the package name  *)
(* or of the vulnerability id, character for character.                    *)
(***************************************************************************)
Occurs(expr, s) ==
    \E lo \in 1..(Len(s) + 1) :
        \E hi \in (lo - 1)..Len(s) :
            /\ hi - lo + 1 = Len(expr)
            /\ \A k \in 1..Len(expr) : s[lo + k - 1] = expr[k]

RowMatches(i, expr) ==
    \/ Occurs(expr, data[i + 1].Package.Name)
    \/ Occurs(expr, data[i + 1].Vulnerability.ID)

MatchingRows(expr) == {i \in 0..(N - 1) : RowMatches(i, expr)}

(***************************************************************************)
(* C4: a commit in FilterEntry, or a repeat-search key in Scroll, that     *)
(* ends in NoMatchFound leaves selectedIndex, windowStart, windowSize and  *)
(* the stored search expression as they were.                              *)
(***************************************************************************)
FailedCommit ==
    /\ KeyEnter
    /\ Find(table, filter.value).err = "NoMatchFound"

FailedFindNext ==
    /\ KeyFindNext
    /\ filter.value # <<>>
    /\ FindNext(table).outcome = "return"
    /\ FindNext(table).err = "NoMatchFound"

FailedFindPrevious ==
    /\ KeyFindPrevious
    /\ filter.value # <<>>
    /\ FindPrevious(table).outcome = "return"
    /\ FindPrevious(table).err = "NoMatchFound"

C4_FailedSearchChangesNothing ==
    [][(FailedCommit \/ FailedFindNext \/ FailedFindPrevious) =>
        /\ table'.rowSelected = table.rowSelected
        /\ table'.firstRowShown = table.firstRowShown
        /\ countRowsShown(table') = countRowsShown(table)
        /\ table'.findExpression = table.findExpression]_vars

\* a repeat search has nowhere to go: the only matching row is selected,
\* and the last event left the state as it is
C4_Witness ==
    /\ mode = ModeDataScroll
    /\ filter.value # <<>>
    /\ N >= 2
    /\ selectedIndex > 0
    /\ MatchingRows(searchExpression) = {selectedIndex}
    /\ FindNext(table).err = "NoMatchFound"
    /\ FindPrevious(table).err = "NoMatchFound"
    /\ cmd = "nil"

(***************************************************************************)
(* C5: find with the empty expression fails with NoMatchFound on every     *)
(* match store, so committing an empty filter buffer stays in FilterEntry  *)
(* and never moves the selection.                                          *)
(***************************************************************************)
C5_EmptyExpressionNotFound ==
    [][(KeyEnter /\ filter.value = <<>>) =>
        /\ Find(table, <<>>).err = "NoMatchFound"
        /\ mode' = ModeFilterEntry
        /\ table'.rowSelected = table.rowSelected]_vars

(***************************************************************************)
(* C6: a successful Find(expr) selects the smallest index whose package    *)
(* name or vulnerability id contains expr (case-sensitively), whatever     *)
(* was selected before, stores expr as the search expression, and leaves   *)
(* the selected row inside the window.                                     *)
(***************************************************************************)
C6_FindSelectsFirstMatch ==
    [][\A expr \in Exprs :
        (TableFind(expr) /\ N > 0 /\ MatchingRows(expr) # {}) =>
            /\ table'.rowSelected \in MatchingRows(expr)
            /\ \A j \in MatchingRows(expr) : table'.rowSelected <= j
            /\ table'.findExpression = expr
            /\ InWindow(table')]_vars

\* a search found a row that was not the selected one, behind the window
C6_Witness ==
    /\ N >= 3
    /\ searchExpression # <<>>
    /\ MatchingRows(searchExpression) # {}
    /\ selectedIndex = 1
    /\ \A j \in MatchingRows(searchExpression) : selectedIndex <= j
    /\ windowStart = 1

(***************************************************************************)
(* C7: findNext (findPrevious) from a selected row of the store returns    *)
(* the first matching row met going forward (backward) from the row after  *)
(* (before) the selection, wrapping at the ends, never the selected row    *)
(* itself, and returns notFound exactly when no other row matches.         *)
(***************************************************************************)
\* how far ahead of (behind) row i row j is, going round the store
Ahead(i, j) == (j - i) % N
Behind(i, j) == (i - j) % N

OtherMatches(expr) == MatchingRows(expr) \ {selectedIndex}

C7_CircularScan ==
    (N >= 1 /\ selectedIndex \in 0..(N - 1)) =>
        \A expr \in Exprs :
            LET next == findNext(table, expr)
                prev == findPrevious(table, expr)
            IN  /\ next.outcome = "return"
                /\ prev.outcome = "return"
                /\ next.index # selectedIndex
                /\ prev.index # selectedIndex
                /\ (next.index = notFound) <=> (OtherMatches(expr) = {})
                /\ (prev.index = notFound) <=> (OtherMatches(expr) = {})
                /\ OtherMatches(expr) # {} =>
                     /\ next.index \in OtherMatches(expr)
                     /\ prev.index \in OtherMatches(expr)
                     /\ \A j \in OtherMatches(expr) :
                          /\ Ahead(selectedIndex, next.index) <= Ahead(selectedIndex, j)
                          /\ Behind(selectedIndex, prev.index) <= Behind(selectedIndex, j)

\* the example: three rows, the expression matches the middle one only,
\* the middle one is selected and FindNext returns NoMatchFound
C7_Witness ==
    /\ N = 3
    /\ selectedIndex = 1
    /\ searchExpression = <<"N", "n">>
    /\ MatchingRows(searchExpression) = {1}
    /\ FindNext(table).err = "NoMatchFound"


(***************************************************************************)
(* C8: in every reachable state the loops of findNext and findPrevious,    *)
(* run with the stored search expression, come to an end after at most N   *)
(* row comparisons; they never go round the store for ever, also when no   *)
(* row or only the selected row matches.                                   *)
(***************************************************************************)
C8_SearchTerminates ==
    LET next == findNext(table, searchExpression)
        prev == findPrevious(table, searchExpression)
    IN  /\ next.outcome # "loop"
        /\ prev.outcome # "loop"
        /\ next.compares <= N
        /\ prev.compares <= N

\* only the selected row, the last one, matches: both scans compare every
\* other row and give up
C8_Witness ==
    /\ N = 3
    /\ selectedIndex = N - 1
    /\ MatchingRows(searchExpression) = {selectedIndex}
    /\ findNext(table, searchExpression) = Returned(notFound, N - 1)
    /\ findPrevious(table, searchExpression) = Returned(notFound, N - 1)

(***************************************************************************)
(* C9: if Find(expr) succeeds at row i and at least two rows match, then   *)
(* as many FindNext calls as there are matching rows select every          *)
(* matching row exactly once, in increasing index order, and the last of   *)
(* them selects i again.                                                   *)
(***************************************************************************)
RECURSIVE Visits(_, _)
\* the rows that k successive FindNext calls select, starting from m
Visits(m, k) ==
    IF k = 0 THEN <<>>
    ELSE LET r == FindNext(m)
         IN  IF r.outcome # "return" \/ r.err # "nil" THEN <<>>
             ELSE <<r.model.rowSelected>> \o Visits(r.model, k - 1)

C9_SearchRoundTrip ==
    \A expr \in Exprs :
        LET r == Find(table, expr)
            k == Cardinality(MatchingRows(expr))
        IN  (N > 0 /\ r.err = "nil" /\ k >= 2) =>
                LET i == r.model.rowSelected
                    v == Visits(r.model, k)
                IN  /\ Len(v) = k
                    /\ v[k] = i
                    /\ {v[n] : n \in 1..k} = MatchingRows(expr)
                    /\ \A n \in 1..(k - 1) : v[n] > (IF n = 1 THEN i ELSE v[n - 1])

\* a search whose expression matches the first and the last row, but not
\* the one between them, has just found the first
C9_Witness ==
    /\ N = 3
    /\ MatchingRows(searchExpression) = {0, 2}
    /\ selectedIndex = 0
    /\ Visits(table, 2) = <<2, 0>>

(***************************************************************************)
(* C10: the layout split of a total height h >= 0 gives the details pane   *)
(* 0 rows when showDetails is off and h / 2 (rounded down) when it is on,  *)
(* and the table the rest, less one row in ModeFilterEntry; a height of 10 *)
(* with details gives 5 / 5 in ModeDataScroll and 5 / 4 in ModeFilterEntry.*)
(***************************************************************************)
C10_LayoutSplit ==
    LET split == expectedComponentHeights(height, showDetails, mode)
        half == CHOOSE q \in 0..height : 2 * q <= height /\ height < 2 * (q + 1)
    IN  /\ height >= 0
        /\ split.details = (IF showDetails THEN half ELSE 0)
        /\ split.table + split.details + (IF mode = ModeFilterEntry THEN 1 ELSE 0) = height
        /\ (height = 10 /\ showDetails /\ mode = ModeDataScroll) =>
               (split.details = 5 /\ split.table = 5)
        /\ (height = 10 /\ showDetails /\ mode = ModeFilterEntry) =>
               (split.details = 5 /\ split.table = 4)

\* the example: height 10 with details while a filter is typed, applied
C10_Witness ==
    /\ height = 10
    /\ showDetails
    /\ mode = ModeFilterEntry
    /\ table.height = 4
    /\ details.height = 5


(***************************************************************************)
(* C11: after every handled event the heights stored in the table and in   *)
(* the details pane are the split of the current (height, mode,            *)
(* showDetails): the details pane has 0 rows or half the height, the       *)
(* table the rest less the filter row, so applying updateComponentSizes    *)
(* again changes nothing.                                                  *)
(***************************************************************************)
C11_AppliedLayoutIsCurrent ==
    /\ details.height = (IF showDetails THEN height \div 2 ELSE 0)
    /\ table.height =
         height - details.height - (IF mode = ModeFilterEntry THEN 1 ELSE 0)
    /\ SizedTable(table, height, width, showDetails, mode) = table
    /\ SizedDetails(details, height, width, showDetails, mode) = details

\* a filter was cancelled with the details pane open on an odd height:
\* the table has its filter row back
C11_Witness ==
    /\ mode = ModeDataScroll
    /\ showDetails
    /\ height = 3
    /\ filter.value # <<>>
    /\ ~filter.focus
    /\ table.height = 2
    /\ details.height = 1


(***************************************************************************)
(* C12: the number of table body rows derived from the pane height is      *)
(* never negative, the state before the first resize event included.       *)
(***************************************************************************)
C12_WindowSizeNonNegative == windowSize >= 0

(***************************************************************************)
(* Rendering.  A frame is kept as its lines: the body lines of the table   *)
(* are blank fillers or rows of the store, and a line whose index is not   *)
(* an index of m.data.Matches is the index-out-of-range panic.             *)
(***************************************************************************)
Blank == [kind |-> "blank"]
OutOfRange(i) == [kind |-> "panic", index |-> i]
DataRow(m, i) ==
    [kind |-> "row", index |-> i, match |-> m.data[i + 1],
     isSelected |-> (i = m.rowSelected)]

\* one pass of the loop of renderDataRows, at loop variable i
renderLine(m, i) ==
    IF i > lastRowIndex(m) THEN Blank
    ELSE IF i < 0 THEN OutOfRange(i)
    ELSE DataRow(m, i)

RECURSIVE renderRowsFrom(_, _)
\* the loop of renderDataRows from loop variable i on
renderRowsFrom(m, i) ==
    IF i < m.firstRowShown + countRowsShown(m)
    THEN <<renderLine(m, i)>> \o renderRowsFrom(m, i + 1)
    ELSE <<>>

renderDataRows(m) ==
    IF m.firstRowShown > lastRowIndex(m) THEN <<>>
    ELSE renderRowsFrom(m, m.firstRowShown)

\* table.Model.View: the header row, then the data rows
TableView(m) == <<[kind |-> "header"]>> \o renderDataRows(m)

\* the details block of model.View: m.data.Matches[m.table.IndexSelected()]
DetailsView ==
    IF ~showDetails THEN <<>>
    ELSE IF table.rowSelected < 0 \/ table.rowSelected > Len(data) - 1
    THEN <<OutOfRange(table.rowSelected)>>
    ELSE <<[kind |-> "details", match |-> data[table.rowSelected + 1],
            height |-> details.height, width |-> details.width]>>

\* model.View: the table, the filter line in ModeFilterEntry, the details
View ==
    TableView(table)
        \o (IF mode = ModeFilterEntry
            THEN <<[kind |-> "filter", value |-> filter.value]>> ELSE <<>>)
        \o DetailsView

(***************************************************************************)
(* C13: in every reachable state, for every store including the empty      *)
(* one, no handler and no rendering reads the store at an index outside    *)
(* 0..N-1: no search has panicked and no line of the frame is an           *)
(* out-of-range read.                                                      *)
(***************************************************************************)
C13_NoOutOfRangeAccess ==
    /\ status # "panic"
    /\ \A k \in 1..Len(View) : View[k].kind # "panic"

(***************************************************************************)
(* C17: with windowSize >= 0 the rendered table is the header line and     *)
(* exactly windowSize body lines: line k is the row windowStart + k - 1    *)
(* of the store if that index is at most N - 1 and a blank filler if not   *)
(* (also when the store is empty or the window starts past its end), and   *)
(* only the row at selectedIndex is marked as selected.                    *)
(***************************************************************************)
C17_FixedSizeBody ==
    windowSize >= 0 =>
        LET lines == TableView(table)
        IN  /\ Len(lines) = 1 + windowSize
            /\ lines[1].kind = "header"
            /\ \A k \in 1..windowSize :
                 LET i == windowStart + k - 1
                     line == lines[k + 1]
                 IN  IF i > N - 1 THEN line.kind = "blank"
                     ELSE /\ line.kind = "row"
                          /\ line.match = data[i + 1]
                          /\ line.isSelected <=> (i = selectedIndex)


(***************************************************************************)
(* C14: the committed search expression survives the mode transitions: in  *)
(* Scroll, whenever a search expression is committed, the repeat-search    *)
(* keys run findNext / findPrevious with it, whatever the text-input       *)
(* buffer holds at that moment: a repeat search that has a row to go to    *)
(* takes the selection there.                                              *)
(***************************************************************************)
C14_RepeatSearchUsesCommitted ==
    (mode = ModeDataScroll /\ status = "running" /\ searchExpression # <<>>) =>
        /\ (/\ FindNext(table).outcome = "return"
            /\ FindNext(table).err = "nil"
            /\ Bounded(FindNext(table).model))
           => ENABLED (KeyFindNext /\ table' = FindNext(table).model)
        /\ (/\ FindPrevious(table).outcome = "return"
            /\ FindPrevious(table).err = "nil"
            /\ Bounded(FindPrevious(table).model))
           => ENABLED (KeyFindPrevious /\ table' = FindPrevious(table).model)


(***************************************************************************)
(* C15: the commit key in FilterEntry.  If some row matches the buffer     *)
(* text, the first such row becomes the selection and is inside the        *)
(* window, the mode becomes Scroll and the layout is recomputed for        *)
(* Scroll, the table regaining the filter row; if no row matches, the      *)
(* mode stays FilterEntry and the buffer text is unchanged.                *)
(***************************************************************************)
C15_CommitKey ==
    [][KeyEnter =>
        IF MatchingRows(filter.value) = {}
        THEN /\ mode' = ModeFilterEntry
             /\ filter' = filter
        ELSE /\ table'.rowSelected \in MatchingRows(filter.value)
             /\ \A j \in MatchingRows(filter.value) : table'.rowSelected <= j
             /\ countRowsShown(table) >= 1 => InWindow(table')
             /\ mode' = ModeDataScroll
             /\ ~filter'.focus
             /\ table'.height = expectedComponentHeights(height, showDetails, ModeDataScroll).table
             /\ table'.height = table.height + 1
             /\ details'.height = expectedComponentHeights(height, showDetails, ModeDataScroll).details]_vars

\* a commit found a row below the window and went back to Scroll with the
\* window moved and the filter row returned to the table
C15_Witness ==
    /\ mode = ModeDataScroll
    /\ status = "running"
    /\ ~filter.focus
    /\ filter.value # <<>>
    /\ searchExpression = filter.value
    /\ N >= 3
    /\ selectedIndex = 2
    /\ \A j \in MatchingRows(filter.value) : selectedIndex <= j
    /\ windowStart = 2
    /\ table.height = 3
    /\ table.height = expectedComponentHeights(height, showDetails, mode).table


(***************************************************************************)
(* C16: NotFound is surfaced.  The state (and with it the frame) that a    *)
(* commit in FilterEntry or a repeat-search key in Scroll leaves when it   *)
(* ends in NoMatchFound is never the state that a key the mode ignores     *)
(* leaves: something in it tells the user that nothing was found.          *)
(***************************************************************************)
IgnoredKey == FilterKey("up") \/ TableKey("x")

C16_NotFoundSurfaced ==
    ~ENABLED ((FailedCommit \/ FailedFindNext \/ FailedFindPrevious) /\ IgnoredKey)


(***************************************************************************)
(* C18: boundary idempotence.  With at least one match and at least one    *)
(* body row, moveUp on the first row and moveDown on the last row return   *)
(* the table as it is (selection and window start included), and           *)
(* jumpToStart, jumpToEnd, jumpToStart in a row end on selected index 0    *)
(* with the window starting at 0.                                          *)
(***************************************************************************)
C18_BoundaryIdempotence ==
    (N >= 1 /\ windowSize >= 1) =>
        /\ selectedIndex = 0 => moveUp(table) = table
        /\ selectedIndex = N - 1 => moveDown(table) = table
        /\ jumpToStart(jumpToEnd(jumpToStart(table))).rowSelected = 0
        /\ jumpToStart(jumpToEnd(jumpToStart(table))).firstRowShown = 0
        /\ jumpToEnd(jumpToStart(table)).rowSelected = N - 1


(***************************************************************************)
(* C19: the match store is sorted and never changes.  In every state the   *)
(* store is a permutation of the matches of the scan report, ordered by    *)
(* package name and then by vulnerability id, both ascending, matches      *)
(* with equal name and id keeping the order the report gave them; the      *)
(* table holds the same sequence; and no event changes the store.          *)
(***************************************************************************)
\* a comes before b in the bytewise lexicographic order
Precedes(a, b) ==
    \E k \in 1..(Len(a) + 1) :
        /\ \A j \in 1..(k - 1) : j <= Len(b) /\ a[j] = b[j]
        /\ k <= Len(b)
        /\ k <= Len(a) => Code(a[k]) < Code(b[k])

SameKey(x, y) ==
    /\ x.Package.Name = y.Package.Name
    /\ x.Vulnerability.ID = y.Vulnerability.ID

KeyBefore(x, y) ==
    \/ Precedes(x.Package.Name, y.Package.Name)
    \/ /\ x.Package.Name = y.Package.Name
       /\ Precedes(x.Vulnerability.ID, y.Vulnerability.ID)

\* s holds the elements of input, position p[k] of input at position k of s
StableSortOf(s, input) ==
    /\ Len(s) = Len(input)
    /\ \E p \in [1..Len(s) -> 1..Len(s)] :
        /\ \A k, l \in 1..Len(s) : k # l => p[k] # p[l]
        /\ \A k \in 1..Len(s) : s[k] = input[p[k]]
        /\ \A k, l \in 1..Len(s) :
            k < l => \/ KeyBefore(s[k], s[l])
                     \/ SameKey(s[k], s[l]) /\ p[k] < p[l]

C19_StoreSortedAndFixed ==
    /\ [](/\ \E input \in Inputs : StableSortOf(data, input)
          /\ table.data = data)
    /\ [][data' = data /\ table'.data = table.data]_vars

\* keys and resizes have happened on the store where the name decides
\* nothing, the id puts one match last and the report's order the other two
C19_Witness ==
    /\ N = 3
    /\ data[1].Package.Name = data[3].Package.Name
    /\ SameKey(data[1], data[2])
    /\ data[1].Package.Version = <<"2">>
    /\ data[2].Package.Version = <<"1">>
    /\ Precedes(data[2].Vulnerability.ID, data[3].Vulnerability.ID)
    /\ height > 0
    /\ selectedIndex = 2
    /\ searchExpression # <<>>
    /\ showDetails


(***************************************************************************)
(* C20: input routing by mode.  In FilterEntry a key other than commit     *)
(* and cancel only edits the text buffer: the selection, the window        *)
(* start, showDetails, the mode and the layout stay as they are and the    *)
(* session does not end.  In Scroll a navigation key changes nothing but   *)
(* the selection and the window start, and the mode stays Scroll.          *)
(***************************************************************************)
\* the step leaves everything but the text buffer (and the command) alone
OnlyEditsBuffer ==
    /\ table' = table
    /\ showDetails' = showDetails
    /\ mode' = mode
    /\ details' = details
    /\ height' = height /\ width' = width
    /\ data' = data
    /\ status' = "running"
    /\ cmd' # "Quit"

\* the step leaves everything but the selection and the window start alone
OnlyMovesSelection ==
    /\ table' = [table EXCEPT !.rowSelected = table'.rowSelected,
                                !.firstRowShown = table'.firstRowShown]
    /\ mode' = ModeDataScroll
    /\ UNCHANGED <<height, width, data, filter, showDetails, details, status>>
    /\ cmd' # "Quit"

C20_RoutingByMode ==
    [][/\ (/\ mode = ModeFilterEntry
           /\ status = "running"
           /\ ~(KeyEnter \/ KeyEsc \/ WindowSizeMsg)) => OnlyEditsBuffer
       /\ KeyToTable => OnlyMovesSelection]_vars

\* C20 as amended: ctrl+c is a third key FilterEntry does not hand to the
\* text input; it ends the session in either mode
C20_RoutingByModeButCtrlC ==
    [][/\ (/\ mode = ModeFilterEntry
           /\ status = "running"
           /\ ~(KeyEnter \/ KeyEsc \/ KeyCtrlC \/ WindowSizeMsg)) => OnlyEditsBuffer
       /\ KeyToTable => OnlyMovesSelection]_vars

\* 'd' was pressed in FilterEntry with the second row selected: it is in
\* the buffer and the details pane is still off
C20_Witness ==
    /\ mode = ModeFilterEntry
    /\ status = "running"
    /\ filter.value = <<"d">>
    /\ ~showDetails
    /\ selectedIndex = 1
    /\ height = 4
    /\ table.height = 3


(***************************************************************************)
(* C21: pageUp, with at least one match.  With the selection below the     *)
(* first row of the window it snaps to that row and the window stays;      *)
(* otherwise it moves back by windowSize rows, stopping at row 0, and the  *)
(* window starts at the new selection.  pageUp never increases the         *)
(* selected index.                                                         *)
(***************************************************************************)
C21_PageUp ==
    N >= 1 =>
        LET after == pageUp(table)
            back == selectedIndex - windowSize
        IN  /\ selectedIndex > windowStart =>
                /\ after.rowSelected = windowStart
                /\ after.firstRowShown = windowStart
            /\ selectedIndex <= windowStart =>
                /\ after.rowSelected = (IF back < 0 THEN 0 ELSE back)
                /\ after.firstRowShown = after.rowSelected
            /\ after.rowSelected <= selectedIndex

(***************************************************************************)
(* C22: pageDown, with at least one match.  With the selection above the   *)
(* last row of the window (or the last row of the store, if that comes     *)
(* first) it snaps to that row and the window stays; otherwise it moves    *)
(* forward by windowSize rows, stopping at row N-1, and the window ends    *)
(* at the new selection.  pageDown never decreases the selected index and  *)
(* never leaves 0..N-1.                                                    *)
(***************************************************************************)
C22_PageDown ==
    N >= 1 =>
        LET after == pageDown(table)
            windowEnd == windowStart + windowSize - 1
            lastShown == IF windowEnd < N - 1 THEN windowEnd ELSE N - 1
            ahead == selectedIndex + windowSize
        IN  /\ selectedIndex < lastShown =>
                /\ after.rowSelected = lastShown
                /\ after.firstRowShown = windowStart
            /\ selectedIndex >= lastShown =>
                /\ after.rowSelected = (IF ahead > N - 1 THEN N - 1 ELSE ahead)
                /\ LET afterEnd == after.firstRowShown + countRowsShown(after) - 1
                   IN  after.rowSelected = (IF afterEnd < N - 1 THEN afterEnd ELSE N - 1)
            /\ after.rowSelected >= selectedIndex
            /\ 0 <= after.rowSelected /\ after.rowSelected <= N - 1


(***************************************************************************)
(* C23: the window is re-derived with the smallest scroll.  Selecting row  *)
(* i leaves windowStart alone when i is inside the window, makes it i      *)
(* when i is before the window and i - (windowSize - 1) when i is past     *)
(* it.  With three matches and windowSize 2, moveDown, moveDown, moveUp,   *)
(* moveUp from (selectedIndex, windowStart) = (0, 0) pass through (1, 0),  *)
(* (2, 1), (1, 1) and end at (0, 0).                                       *)
(***************************************************************************)
Position(t) == <<t.rowSelected, t.firstRowShown>>

C23_MinimalScroll ==
    /\ \A i \in 0..(N - 1) :
        LET after == selectAndShowRow(table, i)
            windowEnd == windowStart + windowSize - 1
        IN  /\ after.rowSelected = i
            /\ (windowStart <= i /\ i <= windowEnd) => after.firstRowShown = windowStart
            /\ i < windowStart => after.firstRowShown = i
            /\ (windowStart <= i /\ i > windowEnd) => after.firstRowShown = i - (windowSize - 1)
    /\ (N = 3 /\ windowSize = 2 /\ Position(table) = <<0, 0>>) =>
        /\ Position(moveDown(table)) = <<1, 0>>
        /\ Position(moveDown(moveDown(table))) = <<2, 1>>
        /\ Position(moveUp(moveDown(moveDown(table)))) = <<1, 1>>
        /\ Position(moveUp(moveUp(moveDown(moveDown(table))))) = <<0, 0>>

\* three matches, two body rows, a search has brought the selection back to
\* row 0 with the window at the top: the four moves start from here
C23_Witness ==
    /\ status = "running"
    /\ mode = ModeDataScroll
    /\ N = 3
    /\ windowSize = 2
    /\ Position(table) = <<0, 0>>
    /\ searchExpression # <<>>
    /\ Position(jumpToEnd(table)) = <<2, 1>>


(***************************************************************************)
(* C24: the cancel key in FilterEntry.  The mode returns to Scroll and the *)
(* layout is recomputed for Scroll, the table regaining the filter row;    *)
(* the selection, the window start, showDetails and the committed search   *)
(* expression stay as they are.  The search expression changes only in a   *)
(* commit that finds a row, and then to the committed text: text that was  *)
(* typed and not committed never becomes the search expression.            *)
(***************************************************************************)
C24_CancelKey ==
    /\ [][KeyEsc =>
            /\ mode' = ModeDataScroll
            /\ ~filter'.focus
            /\ table'.height = expectedComponentHeights(height, showDetails, ModeDataScroll).table
            /\ table'.height = table.height + 1
            /\ details'.height = expectedComponentHeights(height, showDetails, ModeDataScroll).details
            /\ table'.rowSelected = table.rowSelected
            /\ table'.firstRowShown = table.firstRowShown
            /\ showDetails' = showDetails
            /\ table'.findExpression = table.findExpression]_vars
    /\ [][table'.findExpression # table.findExpression =>
            /\ KeyEnter
            /\ MatchingRows(filter.value) # {}
            /\ table'.findExpression = filter.value]_vars

\* back in Scroll after a cancel: the abandoned text is still in the blurred
\* input, the expression committed before it is still the stored one
C24_Witness ==
    /\ mode = ModeDataScroll
    /\ status = "running"
    /\ ~filter.focus
    /\ filter.value = <<"q">>
    /\ searchExpression = <<"n">>
    /\ selectedIndex = 2
    /\ windowStart = 2
    /\ showDetails
    /\ table.height = expectedComponentHeights(height, showDetails, mode).table


(***************************************************************************)
(* C25: the enter-search key in Scroll.  The mode becomes FilterEntry, the *)
(* text input is replaced by a fresh one, empty and focused, the table     *)
(* gives up exactly one row of height for the filter line while the        *)
(* details height stays, the cursor-blink command is returned, and the     *)
(* selection and showDetails stay as they are.                             *)
(***************************************************************************)
C25_EnterSearchKey ==
    [][KeySlash =>
        /\ mode' = ModeFilterEntry
        /\ filter'.value = <<>>
        /\ filter'.focus
        /\ table'.height = table.height - 1
        /\ table'.height = expectedComponentHeights(height, showDetails, ModeFilterEntry).table
        /\ details'.height = details.height
        /\ cmd' = "Blink"
        /\ table'.rowSelected = table.rowSelected
        /\ showDetails' = showDetails]_vars

\* '/' was pressed after a committed search: the input is empty again and
\* focused, the blink command is out, the table is one row shorter
C25_Witness ==
    /\ mode = ModeFilterEntry
    /\ status = "running"
    /\ filter.value = <<>>
    /\ filter.focus
    /\ cmd = "Blink"
    /\ searchExpression = <<"n">>
    /\ selectedIndex = 2
    /\ showDetails
    /\ height = 4
    /\ table.height = 1
    /\ details.height = 2


(***************************************************************************)
(* C26: FindNext and FindPrevious undo each other.  When the selected row  *)
(* is a row of the store that matches the stored expression and at least   *)
(* two rows match it, FindNext followed by FindPrevious, and FindPrevious  *)
(* followed by FindNext, both succeed and select the starting row again.   *)
(***************************************************************************)
C26_SearchStepsInverse ==
    (/\ 0 <= selectedIndex /\ selectedIndex <= N - 1
     /\ selectedIndex \in MatchingRows(searchExpression)
     /\ Cardinality(MatchingRows(searchExpression)) >= 2) =>
        LET forth == FindNext(table)
            back == FindPrevious(table)
        IN  /\ forth.outcome = "return" /\ forth.err = "nil"
            /\ back.outcome = "return" /\ back.err = "nil"
            /\ forth.model.rowSelected # selectedIndex
            /\ back.model.rowSelected # selectedIndex
            /\ FindPrevious(forth.model).err = "nil"
            /\ FindPrevious(forth.model).model.rowSelected = selectedIndex
            /\ FindNext(back.model).err = "nil"
            /\ FindNext(back.model).model.rowSelected = selectedIndex

\* the last row is selected, it and the first row match the stored
\* expression, the row between them does not: the steps wrap both ways
C26_Witness ==
    /\ status = "running"
    /\ N = 3
    /\ searchExpression # <<>>
    /\ MatchingRows(searchExpression) = {0, 2}
    /\ selectedIndex = 2
    /\ FindNext(table).model.rowSelected = 0
    /\ FindPrevious(table).model.rowSelected = 0


(***************************************************************************)
(* C27: paging makes progress.  With at least one match and at least one   *)
(* body row, pageDown selects a row strictly further down unless row N-1   *)
(* is selected, and pageUp a row strictly further up unless row 0 is       *)
(* selected; N pageDown (pageUp) keys in a row end on row N-1 (row 0),     *)
(* and one more leaves the selection there.                                *)
(***************************************************************************)
RECURSIVE Repeated(_, _, _)
\* the table after k presses of a paging key
Repeated(key, m, k) ==
    IF k = 0 THEN m ELSE Repeated(key, TableUpdate(m, key).model, k - 1)

C27_PagingProgress ==
    (N >= 1 /\ windowSize >= 1) =>
        /\ selectedIndex # N - 1 => pageDown(table).rowSelected > selectedIndex
        /\ selectedIndex = N - 1 => pageDown(table).rowSelected = N - 1
        /\ selectedIndex # 0 => pageUp(table).rowSelected < selectedIndex
        /\ selectedIndex = 0 => pageUp(table).rowSelected = 0
        /\ Repeated("z", table, N).rowSelected = N - 1
        /\ Repeated("z", table, N + 1).rowSelected = N - 1
        /\ Repeated("w", table, N).rowSelected = 0
        /\ Repeated("w", table, N + 1).rowSelected = 0


(***************************************************************************)
(* C28: the window never starts past the selection.  With at least one     *)
(* match, an event that finds and leaves the table with at least one body  *)
(* row keeps 0 <= windowStart <= selectedIndex <= N-1, and a layout event  *)
(* (resize, toggle-detail, enter-search, cancel) moves neither the         *)
(* selection nor the window start, so the order also survives a resize     *)
(* that leaves the selection below the rows shown.                         *)
(***************************************************************************)
StartsBeforeSelection(t) ==
    /\ 0 <= t.firstRowShown
    /\ t.firstRowShown <= t.rowSelected
    /\ t.rowSelected <= N - 1

C28_WindowStartsBeforeSelection ==
    /\ [][(/\ N >= 1
           /\ windowSize >= 1
           /\ countRowsShown(table') >= 1
           /\ StartsBeforeSelection(table)) => StartsBeforeSelection(table')]_vars
    /\ [][LayoutEvent => Position(table') = Position(table)]_vars

\* a resize has left one body row, at the top of the store, with the last
\* row still selected
C28_Witness ==
    /\ status = "running"
    /\ N = 3
    /\ windowSize = 1
    /\ selectedIndex = 2
    /\ windowStart = 0
    /\ StartsBeforeSelection(table)
    /\ ~InWindow(table)


(***************************************************************************)
(* C29: toggle-detail is an involution.  After the toggle-detail key in    *)
(* Scroll, a second press brings back showDetails, the table and details   *)
(* heights, the selection and the window start of the state before the     *)
(* first, whatever the total height and the earlier events; and after the  *)
(* enter-search key, the cancel key brings back the table height, the      *)
(* selection and the window start.                                         *)
(***************************************************************************)
C29_ToggleTwiceRestores ==
    [][/\ KeyToggleDetails =>
            LET again == ~showDetails'
                tableAgain == SizedTable(table', height', width', again, mode')
                detailsAgain == SizedDetails(details', height', width', again, mode')
            IN  /\ mode' = ModeDataScroll /\ status' = "running"
                /\ showDetails' # showDetails
                /\ again = showDetails
                /\ tableAgain.height = table.height
                /\ detailsAgain.height = details.height
                /\ Position(tableAgain) = Position(table)
                /\ tableAgain = table /\ detailsAgain = details
       /\ KeySlash =>
            LET tableBack == SizedTable(table', height', width', showDetails', ModeDataScroll)
            IN  /\ mode' = ModeFilterEntry /\ status' = "running"
                /\ tableBack.height = table.height
                /\ Position(tableBack) = Position(table)]_vars

\* the details pane has just been switched on at height 4: the table is
\* down to one body row and the selected row is no longer shown
C29_Witness ==
    /\ status = "running"
    /\ mode = ModeDataScroll
    /\ showDetails
    /\ cmd = "nil"
    /\ height = 4
    /\ table.height = 2
    /\ details.height = 2
    /\ N = 3
    /\ Position(table) = <<2, 1>>
    /\ ~InWindow(table)
    /\ InWindow(SizedTable(table, height, width, ~showDetails, mode))

====
